---------------------------- MODULE Spec2Model ----------------------------
(***************************************************************************)
(* A model of the mastermind repository: the code comparator               *)
(* (compare_codes), the game generator (simulate_game), the candidate      *)
(* pool (generate_permutations_with_replacement, get_combinations,         *)
(* reduce) and the solver drivers (koois.main, simple.main).               *)
(*                                                                         *)
(* Codes are sequences of colours 0..NumColours-1.  Python's 0-based       *)
(* positions are the 1-based positions of the sequences here; no           *)
(* definition depends on the value of a position, only on two positions    *)
(* being the same.                                                         *)
(***************************************************************************)
EXTENDS Integers, Sequences, FiniteSets, TLC

(***************************************************************************)
(* Bounds.  The code takes the board width, the colours and the game       *)
(* length as parameters of simulate_game and of                            *)
(* generate_permutations_with_replacement; the model runs them at these    *)
(* small values.                                                           *)
(***************************************************************************)
Width == 3

NumColours == 3

GameLength == 3

VARIABLES
    call,           \* the pure function under evaluation and its arguments
    result,         \* what that call returned or raised
    gen,            \* simulate_game: where the generator is suspended
    secret_code,    \* simulate_game: secret_code
    game_length,    \* simulate_game: the parameter game_length
    iteration,      \* simulate_game: iterations of the for loop begun
    guess,          \* simulate_game: guess, from line 192 to the iteration's end
    scored,         \* how many times line 196 has scored a guess
    ret,            \* what the last next()/send() gave its caller
    algo,           \* which script runs: "kooi", "simple", "bogo", or "caller"
    pc,             \* the script's position
    file_exists,    \* whether ./combinations.json exists
    combinations,   \* the driver's candidate pool (a list of codes)
    game_round,     \* the driver's game_round
    categories,     \* koois.main: categories
    partition_counts,   \* koois.main: partition_counts
    largest_category,   \* koois.main: largest_category
    answer,         \* the driver's answer
    outcome,        \* what the script printed or raised at its end
    reported,       \* the number of guesses in the script's 'Game won in' line
    played          \* history: every guess the script has sent, with its feedback

fn_vars == <<call, result>>

gen_vars == <<gen, secret_code, game_length, iteration, guess, scored, ret>>

driver_vars == <<algo, pc, file_exists, combinations, game_round, categories,
                 partition_counts, largest_category, answer, outcome, reported, played>>

vars == <<call, result, gen, secret_code, game_length, iteration, guess, scored,
          ret, algo, pc, file_exists, combinations, game_round, categories,
          partition_counts, largest_category, answer, outcome, reported, played>>

None == <<"None">>

(***************************************************************************)
(* Python's min of two numbers (compare_codes, line 106).  TakesLarger is  *)
(* the slip of taking the higher frequency.                                *)
(***************************************************************************)
TakesLarger(a, b) == IF a <= b THEN b ELSE a

Min(a, b) == IF a <= b THEN a ELSE b

(***************************************************************************)
(* scripts/generate_set.py: itertools.product(range(seq_length),           *)
(* repeat=width) as a list: every prefix in order, extended by every       *)
(* colour in order (the last position runs fastest).                       *)
(* generate_combinations_with_replacement is the slip of calling           *)
(* itertools.combinations_with_replacement, which gives the sequences      *)
(* that never descend.                                                     *)
(***************************************************************************)
RECURSIVE generate_combinations_with_replacement(_, _)
generate_combinations_with_replacement(width, seq_length) ==
    IF width = 0
    THEN << <<>> >>
    ELSE LET shorter == generate_combinations_with_replacement(width - 1, seq_length)
             longer == [k \in 1 .. (Len(shorter) * seq_length) |->
                          Append(shorter[((k - 1) \div seq_length) + 1],
                                 (k - 1) % seq_length)]
         IN  SelectSeq(longer, LAMBDA c : width = 1 \/ c[width - 1] <= c[width])

RECURSIVE generate_permutations_with_replacement(_, _)
generate_permutations_with_replacement(width, seq_length) ==
    IF width = 0
    THEN << <<>> >>
    ELSE LET shorter == generate_permutations_with_replacement(width - 1, seq_length)
         IN  [k \in 1 .. (Len(shorter) * seq_length) |->
                Append(shorter[((k - 1) \div seq_length) + 1], (k - 1) % seq_length)]

Range(s) == {s[i] : i \in DOMAIN s}

AllCombinations == generate_permutations_with_replacement(Width, NumColours)

Universe == Range(AllCombinations)

(***************************************************************************)
(* collections.Counter(code): the frequency of every colour of the code.   *)
(***************************************************************************)
Counter(code) ==
    [colour \in Range(code) |-> Cardinality({i \in DOMAIN code : code[i] = colour})]

(***************************************************************************)
(* mastermind.py, compare_codes, lines 98-100: one increment for every     *)
(* (index, colour) of the secret that is a member of                       *)
(* enumerate(to_compare).  CorrectOrderAnyPosition is the slip of testing  *)
(* the colour alone (colour in to_compare).                                *)
(***************************************************************************)
RECURSIVE CorrectOrderAnyPosition(_, _, _)
CorrectOrderAnyPosition(secret, to_compare, index) ==
    IF index > Len(secret)
    THEN 0
    ELSE (IF \E j \in DOMAIN to_compare : to_compare[j] = secret[index]
          THEN 1 ELSE 0)
         + CorrectOrderAnyPosition(secret, to_compare, index + 1)

RECURSIVE CorrectOrder(_, _, _)
CorrectOrder(secret, to_compare, index) ==
    IF index > Len(secret)
    THEN 0
    ELSE (IF \E j \in DOMAIN to_compare : j = index /\ to_compare[j] = secret[index]
          THEN 1 ELSE 0)
         + CorrectOrder(secret, to_compare, index + 1)

(***************************************************************************)
(* mastermind.py, compare_codes, lines 104-106: for every colour of the    *)
(* first counter that is also in the second, the lower frequency.          *)
(* FrequencyOverlapOfFirst is the slip of adding the first counter's       *)
(* frequency.                                                              *)
(***************************************************************************)
RECURSIVE FrequencyOverlapOfFirst(_, _, _)
FrequencyOverlapOfFirst(keys, f0, f1) ==
    IF keys = {}
    THEN 0
    ELSE LET colour == CHOOSE c \in keys : TRUE
         IN  (IF colour \in DOMAIN f1 THEN f0[colour] ELSE 0)
             + FrequencyOverlapOfFirst(keys \ {colour}, f0, f1)

RECURSIVE FrequencyOverlap(_, _, _)
FrequencyOverlap(keys, f0, f1) ==
    IF keys = {}
    THEN 0
    ELSE LET colour == CHOOSE c \in keys : TRUE
         IN  (IF colour \in DOMAIN f1 THEN Min(f0[colour], f1[colour]) ELSE 0)
             + FrequencyOverlap(keys \ {colour}, f0, f1)

(***************************************************************************)
(* mastermind.py, compare_codes.  compare_codes_keeps_exact is the slip of *)
(* leaving out line 109 (incorrect_order -= correct_order).                *)
(***************************************************************************)
compare_codes_keeps_exact(secret, to_compare) ==
    LET frequencies == <<Counter(secret), Counter(to_compare)>>
        correct_order == CorrectOrder(secret, to_compare, 1)
        incorrect_order == FrequencyOverlap(DOMAIN frequencies[1],
                                            frequencies[1], frequencies[2])
    IN  <<correct_order, incorrect_order>>

compare_codes(secret, to_compare) ==
    LET frequencies == <<Counter(secret), Counter(to_compare)>>
        correct_order == CorrectOrder(secret, to_compare, 1)
        incorrect_order == FrequencyOverlap(DOMAIN frequencies[1],
                                            frequencies[1], frequencies[2])
    IN  <<correct_order, incorrect_order - correct_order>>

(***************************************************************************)
(* mastermind.py, is_won.                                                  *)
(***************************************************************************)
is_won(correctness, board_width) == correctness[1] = board_width

(***************************************************************************)
(* The values a variable holds while its part of the program is not in     *)
(* use.                                                                    *)
(***************************************************************************)
NoReturn == [kind |-> "none", value |-> <<>>]

Return(value) == [kind |-> "return", value |-> value]

Raise(exception) == [kind |-> exception, value |-> <<>>]

FnIdle == call = [op |-> "none"] /\ result = NoReturn

GenIdle ==
    /\ gen = "absent"
    /\ secret_code = None
    /\ game_length = 0
    /\ iteration = 0
    /\ guess = None
    /\ scored = 0
    /\ ret = NoReturn

DriverIdle ==
    /\ algo = "none"
    /\ pc = "none"
    /\ file_exists = FALSE
    /\ combinations = <<>>
    /\ game_round = 0
    /\ categories = {}
    /\ partition_counts = <<>>
    /\ largest_category = <<>>
    /\ answer = <<>>
    /\ outcome = "none"
    /\ reported = 0
    /\ played = <<>>

(***************************************************************************)
(* The comparator on its own: any two codes of the board's width are       *)
(* scored.                                                                 *)
(***************************************************************************)
InitCompare ==
    /\ call \in [op : {"compare_codes"}, secret : Universe, to_compare : Universe]
    /\ result = NoReturn
    /\ GenIdle
    /\ DriverIdle

CallCompare ==
    /\ call.op = "compare_codes"
    /\ result = NoReturn
    /\ result' = Return(compare_codes(call.secret, call.to_compare))
    /\ UNCHANGED <<call, gen_vars, driver_vars>>

NextCompare == CallCompare

SpecCompare == InitCompare /\ [][NextCompare]_vars

(***************************************************************************)
(* The comparator given a code that is one colour shorter or one colour    *)
(* longer than the secret.                                                 *)
(***************************************************************************)
InitCompareLengths ==
    /\ call \in [op : {"compare_codes"},
                  secret : Universe,
                  to_compare : Range(generate_permutations_with_replacement(Width - 1, NumColours))
                               \cup Range(generate_permutations_with_replacement(Width + 1, NumColours))]
    /\ result = NoReturn
    /\ GenIdle
    /\ DriverIdle

SpecCompareLengths == InitCompareLengths /\ [][NextCompare]_vars

(***************************************************************************)
(* Python's list[:-count] (scripts/mastermind.py, line 47): the list       *)
(* without its last count items.  -0 is 0, so list[:-0] is list[:0], the   *)
(* empty list; a count past the list's length leaves the empty list too.   *)
(***************************************************************************)
SliceOffEnd(list, count) ==
    IF count = 0 \/ count >= Len(list)
    THEN <<>>
    ELSE SubSeq(list, 1, Len(list) - count)

(***************************************************************************)
(* scripts/mastermind.py, compare_codes (the list form), lines 20-55.      *)
(* correct_order has one 'CORRECT_ORDER' for every (index, colour) of the  *)
(* secret that is in enumerate(to_compare); incorrect_order has one        *)
(* 'INCORRECT_ORDER' for every colour of to_compare that occurs in the     *)
(* secret, sliced by [:-len(correct_order)]; the two are joined and filled *)
(* up to code_length with 'WRONG'.  Colours are the numbers of the model   *)
(* in place of the script's colour names.                                  *)
(***************************************************************************)
compare_codes_list(secret, to_compare, code_length) ==
    LET correct_order ==
            [i \in 1 .. CorrectOrder(secret, to_compare, 1) |-> "CORRECT_ORDER"]
        in_secret == SelectSeq(to_compare, LAMBDA colour : colour \in Range(secret))
        incorrect_order ==
            SliceOffEnd([i \in 1 .. Len(in_secret) |-> "INCORRECT_ORDER"],
                        Len(correct_order))
        combined_lists == correct_order \o incorrect_order
    IN  IF Len(combined_lists) < code_length
        THEN combined_lists
                 \o [i \in 1 .. (code_length - Len(combined_lists)) |-> "WRONG"]
        ELSE combined_lists

(***************************************************************************)
(* The list-form comparator on its own: any two codes of the board's       *)
(* width, with the width as code_length.                                   *)
(***************************************************************************)
InitCompareList ==
    /\ call \in [op : {"compare_codes_list"}, secret : Universe, to_compare : Universe]
    /\ result = NoReturn
    /\ GenIdle
    /\ DriverIdle

CallCompareList ==
    /\ call.op = "compare_codes_list"
    /\ result = NoReturn
    /\ result' = Return(compare_codes_list(call.secret, call.to_compare, Width))
    /\ UNCHANGED <<call, gen_vars, driver_vars>>

NextCompareList == CallCompareList

SpecCompareList == InitCompareList /\ [][NextCompareList]_vars

(***************************************************************************)
(* mastermind.py, simulate_game, as the generator the caller resumes with  *)
(* next() and send().  gen is where the generator stands:                  *)
(*   "created"   not started (its body has not run),                       *)
(*   "guess"     suspended at line 192, guess = yield,                     *)
(*   "feedback"  suspended at line 206, yield *correctness, won (not won), *)
(*   "won"       suspended at line 203, yield *correctness, won (won),     *)
(*   "finished"  returned, or left by an exception.                        *)
(***************************************************************************)
Yield(value) == [kind |-> "yield", value |-> value]

(***************************************************************************)
(* simulate_game, line 189: the head of the for loop.  Another iteration   *)
(* suspends at line 192 and hands the caller None; with the range used up  *)
(* the generator returns (line 208) and the caller gets StopIteration.     *)
(* The guess of the iteration that ended is never read again (line 192     *)
(* assigns guess before line 193 reads it), and the model forgets it here. *)
(* LoopHeadOneMore is the slip of a range one iteration too long.          *)
(***************************************************************************)
LoopHeadOneMore ==
    IF iteration <= game_length
    THEN /\ iteration' = iteration + 1
         /\ gen' = "guess"
         /\ guess' = None
         /\ ret' = Yield(None)
    ELSE /\ iteration' = iteration
         /\ gen' = "finished"
         /\ guess' = None
         /\ ret' = Raise("StopIteration")

LoopHead ==
    IF iteration < game_length
    THEN /\ iteration' = iteration + 1
         /\ gen' = "guess"
         /\ guess' = None
         /\ ret' = Yield(None)
    ELSE /\ iteration' = iteration
         /\ gen' = "finished"
         /\ guess' = None
         /\ ret' = Raise("StopIteration")

(***************************************************************************)
(* A returned generator, or one resumed at line 203, whose next statement  *)
(* is the return of line 204: StopIteration.  GenReturnFallsThrough is the *)
(* slip of leaving out the return of line 204: resumed at line 203, the    *)
(* generator goes on to line 206 and yields the feedback once more.        *)
(***************************************************************************)
GenReturnFallsThrough ==
    IF gen = "won"
    THEN /\ gen' = "feedback"
         /\ UNCHANGED <<secret_code, game_length, iteration, guess, scored, ret>>
    ELSE /\ gen' = "finished"
         /\ guess' = None
         /\ ret' = Raise("StopIteration")
         /\ UNCHANGED <<secret_code, game_length, iteration, scored>>

GenReturn ==
    /\ gen' = "finished"
    /\ guess' = None
    /\ ret' = Raise("StopIteration")
    /\ UNCHANGED <<secret_code, game_length, iteration, scored>>

(***************************************************************************)
(* next(game_simulation), which is send(None).  On a generator suspended   *)
(* at line 192 the guess is None, and compare_codes (line 99,              *)
(* enumerate(None)) raises TypeError, which ends the generator.            *)
(***************************************************************************)
GenNext ==
    IF gen = "created"
    THEN /\ \E code \in Universe : secret_code' = code    \* line 186
         /\ LoopHead
         /\ UNCHANGED <<game_length, scored>>
    ELSE IF gen = "guess"
    THEN /\ guess' = None
         /\ gen' = "finished"
         /\ ret' = Raise("TypeError")
         /\ UNCHANGED <<secret_code, game_length, iteration, scored>>
    ELSE IF gen = "feedback"
    THEN /\ LoopHead
         /\ UNCHANGED <<secret_code, game_length, scored>>
    ELSE GenReturn

(***************************************************************************)
(* game_simulation.send(code), lines 192-206.  A generator that has not    *)
(* started refuses a value that is not None (TypeError) and stays as it    *)
(* is.  At line 206 the value sent is the value of a yield expression      *)
(* nobody reads.  GenSendReadsAtFeedback is the slip of taking the value   *)
(* sent at line 206 as the guess of the next iteration.                    *)
(***************************************************************************)
GenSendReadsAtFeedback(code) ==
    IF gen = "created"
    THEN /\ ret' = Raise("TypeError")
         /\ UNCHANGED <<gen, secret_code, game_length, iteration, guess, scored>>
    ELSE IF gen = "guess" \/ (gen = "feedback" /\ iteration < game_length)
    THEN LET correctness == compare_codes(secret_code, code)
             won == is_won(correctness, Width)
         IN  /\ guess' = code
             /\ scored' = scored + 1
             /\ iteration' = IF gen = "guess" THEN iteration ELSE iteration + 1
             /\ gen' = IF won THEN "won" ELSE "feedback"
             /\ ret' = Yield(<<correctness[1], correctness[2], won>>)
             /\ UNCHANGED <<secret_code, game_length>>
    ELSE GenReturn

GenSend(code) ==
    IF gen = "created"
    THEN /\ ret' = Raise("TypeError")
         /\ UNCHANGED <<gen, secret_code, game_length, iteration, guess, scored>>
    ELSE IF gen = "guess"
    THEN LET correctness == compare_codes(secret_code, code)
             won == is_won(correctness, Width)
         IN  /\ guess' = code
             /\ scored' = scored + 1
             /\ gen' = IF won THEN "won" ELSE "feedback"
             /\ ret' = Yield(<<correctness[1], correctness[2], won>>)
             /\ UNCHANGED <<secret_code, game_length, iteration>>
    ELSE IF gen = "feedback"
    THEN /\ LoopHead
         /\ UNCHANGED <<secret_code, game_length, scored>>
    ELSE GenReturn

(***************************************************************************)
(* The game generator under any caller: simulate_game(colours,             *)
(* game_length, board_width) is created, and next() and send(code) follow  *)
(* in any order.  Only at line 192 does the generator read the code sent;  *)
(* elsewhere one code stands for every code.  pc is the call the caller    *)
(* made last.                                                              *)
(***************************************************************************)
InitSession ==
    /\ FnIdle
    /\ gen = "created"
    /\ secret_code = None
    /\ game_length \in 0 .. GameLength
    /\ iteration = 0
    /\ guess = None
    /\ scored = 0
    /\ ret = NoReturn
    /\ algo = "caller"
    /\ pc = "caller"
    /\ file_exists = FALSE
    /\ combinations = <<>>
    /\ game_round = 0
    /\ categories = {}
    /\ partition_counts = <<>>
    /\ largest_category = <<>>
    /\ answer = <<>>
    /\ outcome = "none"
    /\ reported = 0
    /\ played = <<>>

CallerNext ==
    /\ algo = "caller"
    /\ GenNext
    /\ pc' = "next"
    /\ UNCHANGED <<fn_vars, algo, file_exists, combinations, game_round, categories,
                   partition_counts, largest_category, answer, outcome, reported, played>>

CallerSend ==
    /\ algo = "caller"
    /\ \E code \in (IF gen = "guess" THEN Universe ELSE {AllCombinations[1]}) :
          GenSend(code)
    /\ pc' = "send"
    /\ UNCHANGED <<fn_vars, algo, file_exists, combinations, game_round, categories,
                   partition_counts, largest_category, answer, outcome, reported, played>>

NextSession == CallerNext \/ CallerSend

SpecSession == InitSession /\ [][NextSession]_vars

(***************************************************************************)
(* initialization.py, reduce (simple.py's reduce is the same text): the    *)
(* combinations, in their order, whose score against the guess is the      *)
(* given score.  reduce_on_correct_order is the slip of comparing the      *)
(* first count of the score alone; reduce_without_first is the slip of     *)
(* dropping the first combination that was kept.                           *)
(***************************************************************************)
reduce_without_first(possible_combinations, code, score) ==
    LET kept == SelectSeq(possible_combinations,
                          LAMBDA possible_combination :
                              score = compare_codes(code, possible_combination))
    IN  IF kept = <<>> THEN kept ELSE Tail(kept)

reduce_on_correct_order(possible_combinations, code, score) ==
    SelectSeq(possible_combinations,
              LAMBDA possible_combination :
                  score[1] = compare_codes(code, possible_combination)[1])

reduce(possible_combinations, code, score) ==
    SelectSeq(possible_combinations,
              LAMBDA possible_combination :
                  score = compare_codes(code, possible_combination))

(***************************************************************************)
(* simple.py, get_guess: random.choice(possible_combinations) returns any  *)
(* one item of a list; these are the values it may return.  Of an empty    *)
(* list it raises IndexError.                                              *)
(***************************************************************************)
get_guess(possible_combinations) == Range(possible_combinations)

(***************************************************************************)
(* bogorithm.py, line 37: random.randint(a, b) returns any integer of      *)
(* a .. b, and raises ValueError when there is none (a > b).               *)
(***************************************************************************)
randint(a, b) == a .. b

(***************************************************************************)
(* bogorithm.py, line 37: possible_combinations.pop(index), index counted  *)
(* from 0: the item at the index, and the list that is left without it.    *)
(* pop_keeps_item is the slip of reading the item and leaving it in the    *)
(* list (possible_combinations[index]); pop_first_item is the slip of      *)
(* removing the head of the list whatever the index.                       *)
(***************************************************************************)
pop_keeps_item(possible_combinations, index) ==
    <<possible_combinations[index + 1], possible_combinations>>

pop_first_item(possible_combinations, index) ==
    <<possible_combinations[index + 1], Tail(possible_combinations)>>

pop(possible_combinations, index) ==
    <<possible_combinations[index + 1],
      SubSeq(possible_combinations, 1, index)
          \o SubSeq(possible_combinations, index + 2, Len(possible_combinations))>>

(***************************************************************************)
(* The pool functions on their own.  The pools they are given are the      *)
(* lists generate_permutations_with_replacement writes for the board's     *)
(* width and up to NumColours colours, and those lists without their       *)
(* first code; the guess is any code and the score any pair of counts      *)
(* that fits the width.  The list itself is generated for every width up   *)
(* to the board's.                                                         *)
(***************************************************************************)
PoolsUnderTest ==
    LET written == {generate_permutations_with_replacement(Width, n) : n \in 0 .. NumColours}
    IN  written \cup {Tail(pool) : pool \in written \ {<<>>}}

Scores == {score \in (0 .. Width) \X (0 .. Width) : score[1] + score[2] <= Width}

InitPool ==
    /\ call \in [op : {"reduce"}, pool : PoolsUnderTest, guess : Universe, score : Scores]
                \cup [op : {"get_guess", "pop"}, pool : PoolsUnderTest,
                      guess : {None}, score : {<<>>}]
                \cup [op : {"generate_permutations_with_replacement"},
                      width : 0 .. Width, seq_length : 0 .. NumColours]
    /\ result = NoReturn
    /\ GenIdle
    /\ DriverIdle

CallReduce ==
    /\ call.op = "reduce"
    /\ result = NoReturn
    /\ result' = Return(reduce(call.pool, call.guess, call.score))
    /\ UNCHANGED <<call, gen_vars, driver_vars>>

CallGetGuess ==
    /\ call.op = "get_guess"
    /\ result = NoReturn
    /\ IF call.pool = <<>>
       THEN result' = Raise("IndexError")
       ELSE \E code \in get_guess(call.pool) : result' = Return(code)
    /\ UNCHANGED <<call, gen_vars, driver_vars>>

(***************************************************************************)
(* reduce called again on the list it returned, with the same guess and    *)
(* the same score.                                                         *)
(***************************************************************************)
CallReduceAgain ==
    /\ call.op = "reduce"
    /\ result.kind = "return"
    /\ call' = [call EXCEPT !.op = "reduce_again", !.pool = result.value]
    /\ result' = Return(reduce(result.value, call.guess, call.score))
    /\ UNCHANGED <<gen_vars, driver_vars>>

(***************************************************************************)
(* bogorithm.py, line 37, on its own:                                      *)
(* possible_combinations.pop(random.randint(0, len(...) - 1)).  The        *)
(* result is the guess and the list that is left.                          *)
(***************************************************************************)
CallPop ==
    /\ call.op = "pop"
    /\ result = NoReturn
    /\ IF randint(0, Len(call.pool) - 1) = {}
       THEN result' = Raise("ValueError")
       ELSE \E index \in randint(0, Len(call.pool) - 1) :
               result' = Return(pop(call.pool, index))
    /\ UNCHANGED <<call, gen_vars, driver_vars>>

(***************************************************************************)
(* scripts/generate_set.py, generate_permutations_with_replacement, on its *)
(* own, for any width up to the board's and any number of colours up to    *)
(* the board's.                                                            *)
(***************************************************************************)
CallGenerate ==
    /\ call.op = "generate_permutations_with_replacement"
    /\ result = NoReturn
    /\ result' = Return(generate_permutations_with_replacement(call.width, call.seq_length))
    /\ UNCHANGED <<call, gen_vars, driver_vars>>

NextPool == CallReduce \/ CallGetGuess \/ CallReduceAgain \/ CallPop \/ CallGenerate

SpecPool == InitPool /\ [][NextPool]_vars

(***************************************************************************)
(* koois.py, get_category, lines 68-70:                                    *)
(* sorted(Counter(combination).values(), reverse=True).                    *)
(* CountsInColourOrder is the slip of leaving out the sort: the counts in  *)
(* the order of their colours.                                             *)
(***************************************************************************)
RECURSIVE CountsInColourOrder(_, _)
CountsInColourOrder(frequency, keys) ==
    IF keys = {}
    THEN <<>>
    ELSE LET lowest == CHOOSE k \in keys : \A other \in keys : k <= other
         IN  <<frequency[lowest]>> \o CountsInColourOrder(frequency, keys \ {lowest})

RECURSIVE SortedCounts(_, _)
SortedCounts(frequency, keys) ==
    IF keys = {}
    THEN <<>>
    ELSE LET top == CHOOSE k \in keys : \A other \in keys : frequency[k] >= frequency[other]
         IN  <<frequency[top]>> \o SortedCounts(frequency, keys \ {top})

(***************************************************************************)
(* koois.py, get_category, lines 74-75: the position of every count (from  *)
(* 0), repeated count times.                                               *)
(***************************************************************************)
RECURSIVE ExtendCategory(_, _)
ExtendCategory(combination_counts, counter) ==
    IF counter > Len(combination_counts)
    THEN <<>>
    ELSE [i \in 1 .. combination_counts[counter] |-> counter - 1]
         \o ExtendCategory(combination_counts, counter + 1)

(***************************************************************************)
(* koois.py, get_category.                                                 *)
(***************************************************************************)
get_category(combination) ==
    LET frequency == Counter(combination)
        combination_counts == SortedCounts(frequency, DOMAIN frequency)
    IN  ExtendCategory(combination_counts, 1)

(***************************************************************************)
(* get_category on its own, called for each of any two combinations of     *)
(* the board's width.                                                      *)
(***************************************************************************)
InitCategory ==
    /\ call \in [op : {"get_category"}, combination : Universe, other : Universe]
    /\ result = NoReturn
    /\ GenIdle
    /\ DriverIdle

CallGetCategory ==
    /\ call.op = "get_category"
    /\ result = NoReturn
    /\ result' = Return(<<get_category(call.combination), get_category(call.other)>>)
    /\ UNCHANGED <<call, gen_vars, driver_vars>>

NextCategory == CallGetCategory

SpecCategory == InitCategory /\ [][NextCategory]_vars

(***************************************************************************)
(* koois.py, get_all_categories.                                           *)
(***************************************************************************)
get_all_categories(possible_combinations) ==
    {get_category(possible_combinations[i]) : i \in DOMAIN possible_combinations}

(***************************************************************************)
(* koois.py, get_partition_count: the number of different scores the       *)
(* combination gets against the possible combinations.                     *)
(* get_partition_count_of_all is the slip of counting the scores           *)
(* themselves (the len of the list) instead of the different ones.         *)
(***************************************************************************)
get_partition_count_of_all(possible_combinations, combination) ==
    Len(possible_combinations)

get_partition_count(possible_combinations, combination) ==
    Cardinality({compare_codes(combination, possible_combinations[i]) :
                    i \in DOMAIN possible_combinations})

(***************************************************************************)
(* koois.py, main, lines 36-39: the partition count of every category.     *)
(* Probe is the combination main hands to get_partition_count for a        *)
(* category (line 37): the category tuple itself.                          *)
(***************************************************************************)
Probe(category) == category

PartitionCounts(possible_combinations, cats) ==
    [category \in cats |-> get_partition_count(possible_combinations, Probe(category))]

(***************************************************************************)
(* koois.py, main, line 41: max(partition_counts, key=partition_counts.get)*)
(* is the first key, in the dict's order, of the highest count.  The dict  *)
(* is filled in the iteration order of a set, which the language leaves    *)
(* open: any key of the highest count may be the one.  MinKeys is the slip *)
(* of taking min for max.                                                  *)
(***************************************************************************)
MinKeys(counts) ==
    {category \in DOMAIN counts :
        \A other \in DOMAIN counts : counts[category] <= counts[other]}

MaxKeys(counts) ==
    {category \in DOMAIN counts :
        \A other \in DOMAIN counts : counts[category] >= counts[other]}

(***************************************************************************)
(* koois.py, main, lines 42-46: the first combination of the category.     *)
(***************************************************************************)
FirstOfCategory(possible_combinations, category) ==
    LET first == CHOOSE i \in DOMAIN possible_combinations :
                    /\ get_category(possible_combinations[i]) = category
                    /\ \A j \in 1 .. (i - 1) :
                          get_category(possible_combinations[j]) # category
    IN  possible_combinations[first]

(***************************************************************************)
(* The solver scripts.  pc is "start" before main's first statement,       *)
(* "for" at the head of `for _ in game_simulation`, "body" inside the      *)
(* loop and "done" when main has ended.                                    *)
(***************************************************************************)
Init ==
    /\ FnIdle
    /\ GenIdle
    /\ algo \in {"kooi", "simple"}
    /\ pc = "start"
    /\ file_exists \in BOOLEAN
    /\ combinations = <<>>
    /\ game_round = 0
    /\ categories = {}
    /\ partition_counts = <<>>
    /\ largest_category = <<>>
    /\ answer = <<>>
    /\ outcome = "none"
    /\ reported = 0
    /\ played = <<>>

(***************************************************************************)
(* koois.py, main, lines 26-30.  init.get_combinations (initialization.py  *)
(* lines 23-37) first runs generate_set.main, which writes the file, and   *)
(* reads it back: JSON turns the tuples into lists of the same numbers in  *)
(* the same order.  simulate_game is called, which creates the generator.  *)
(***************************************************************************)
KooiStart ==
    /\ algo = "kooi"
    /\ pc = "start"
    /\ file_exists' = TRUE
    /\ combinations' = AllCombinations
    /\ gen' = "created"
    /\ game_length' = GameLength
    /\ pc' = "for"
    /\ UNCHANGED <<fn_vars, secret_code, iteration, guess, scored, ret, algo,
                   game_round, categories, partition_counts, largest_category,
                   answer, outcome, reported, played>>

(***************************************************************************)
(* `for _ in game_simulation:` asks the generator for its next value; on   *)
(* StopIteration the loop's else branch prints 'Game lost.'.               *)
(***************************************************************************)
ForNext ==
    /\ algo \in {"kooi", "bogo"}
    /\ pc = "for"
    /\ GenNext
    /\ IF ret'.kind = "yield"
       THEN pc' = "body" /\ outcome' = outcome
       ELSE pc' = "done" /\ outcome' = "lost"
    /\ UNCHANGED <<fn_vars, algo, file_exists, combinations, game_round,
                   categories, partition_counts, largest_category, answer, reported, played>>

(***************************************************************************)
(* koois.py, line 52, and bogorithm.py, line 41:                           *)
(* print(f"Game won in {game_round} guesses!").  game_won_in_one_more is   *)
(* the slip of printing game_round + 1.                                    *)
(***************************************************************************)
game_won_in_one_more(round) == round + 1

game_won_in(round) == round

(***************************************************************************)
(* bogorithm.py, line 23: init.GAME_LENGTH = 1296, "max amount of          *)
(* guesses", which the docstring (lines 8-10) gives as n^r: 6^4 for the    *)
(* standard game.  BogoGameLengthOneShort is the slip of a budget one      *)
(* guess short of that.                                                    *)
(***************************************************************************)
BogoGameLengthOneShort == (NumColours ^ Width) - 1

BogoGameLength == NumColours ^ Width

(***************************************************************************)
(* koois.py, main, lines 32-55: one pass of the loop body.  max() of an    *)
(* empty dict raises ValueError.                                           *)
(***************************************************************************)
KooiBody ==
    /\ algo = "kooi"
    /\ pc = "body"
    /\ game_round' = game_round + 1
    /\ categories' = get_all_categories(combinations)
    /\ partition_counts' = PartitionCounts(combinations, categories')
    /\ IF combinations = <<>>
       THEN /\ pc' = "done"
            /\ outcome' = "ValueError"
            /\ UNCHANGED <<gen_vars, combinations, largest_category, answer, reported, played>>
       ELSE /\ \E category \in MaxKeys(partition_counts') :
                    largest_category' = category
            /\ GenSend(FirstOfCategory(combinations, largest_category'))
            /\ answer' = ret'.value
            /\ played' = Append(played, <<guess', <<answer'[1], answer'[2]>>>>)
            /\ IF answer'[3]
               THEN /\ pc' = "done"
                    /\ outcome' = "won"
                    /\ reported' = game_won_in(game_round')
                    /\ combinations' = combinations
               ELSE /\ pc' = "for"
                    /\ outcome' = outcome
                    /\ reported' = reported
                    /\ combinations' = reduce(combinations, guess', <<answer'[1], answer'[2]>>)
    /\ UNCHANGED <<fn_vars, algo, file_exists>>

(***************************************************************************)
(* simple.py, main, line 35: get_combinations (lines 57-68) opens          *)
(* ./combinations.json before anything has written it (generate_set.main   *)
(* is only called on line 38): FileNotFoundError without the file.  With   *)
(* the file, json.loads gives a list of lists and set() of it raises       *)
(* TypeError (a list is not hashable).  main ends there either way.        *)
(***************************************************************************)
SimpleStart ==
    /\ algo = "simple"
    /\ pc = "start"
    /\ pc' = "done"
    /\ outcome' = IF file_exists THEN "TypeError" ELSE "FileNotFoundError"
    /\ UNCHANGED <<fn_vars, gen_vars, algo, file_exists, combinations, game_round,
                   categories, partition_counts, largest_category, answer, reported, played>>

Next == KooiStart \/ ForNext \/ KooiBody \/ SimpleStart

Spec == Init /\ [][Next]_vars

(***************************************************************************)
(* The draws of random.randint the model follows in a whole game of        *)
(* bogorithm.py.  A draw matters to the game through the code it picks     *)
(* being the secret or not: the model follows the draw that picks the      *)
(* secret, and index 0 for the draws that miss it.  (Every draw is         *)
(* followed where the pick is taken on its own, CallPop.)                  *)
(***************************************************************************)
DrawsFollowed(range) ==
    {index \in range : index = 0 \/ combinations[index + 1] = secret_code}

(***************************************************************************)
(* bogorithm.py, main, lines 30-33: init.get_combinations writes and reads *)
(* the file; simulate_game is called with init.GAME_LENGTH.                *)
(***************************************************************************)
BogoStart ==
    /\ algo = "bogo"
    /\ pc = "start"
    /\ file_exists' = TRUE
    /\ combinations' = AllCombinations
    /\ gen' = "created"
    /\ game_length' = BogoGameLength
    /\ pc' = "for"
    /\ UNCHANGED <<fn_vars, secret_code, iteration, guess, scored, ret, algo,
                   game_round, categories, partition_counts, largest_category,
                   answer, outcome, reported, played>>

(***************************************************************************)
(* bogorithm.py, main, lines 35-42: one pass of the loop body.             *)
(* random.randint of an empty range raises ValueError.                     *)
(***************************************************************************)
BogoBody ==
    /\ algo = "bogo"
    /\ pc = "body"
    /\ game_round' = game_round + 1
    /\ IF randint(0, Len(combinations) - 1) = {}
       THEN /\ pc' = "done"
            /\ outcome' = "ValueError"
            /\ UNCHANGED <<gen_vars, combinations, answer, reported, played>>
       ELSE \E index \in DrawsFollowed(randint(0, Len(combinations) - 1)) :
               /\ combinations' = pop(combinations, index)[2]
               /\ GenSend(pop(combinations, index)[1])
               /\ answer' = ret'.value
               /\ played' = Append(played, <<guess', <<answer'[1], answer'[2]>>>>)
               /\ IF answer'[3]
                  THEN /\ pc' = "done"
                       /\ outcome' = "won"
                       /\ reported' = game_won_in(game_round')
                  ELSE /\ pc' = "for"
                       /\ outcome' = outcome
                       /\ reported' = reported
    /\ UNCHANGED <<fn_vars, algo, file_exists, categories, partition_counts,
                   largest_category>>

(***************************************************************************)
(* bogorithm.py run on its own.                                            *)
(***************************************************************************)
InitBogo ==
    /\ FnIdle
    /\ GenIdle
    /\ algo = "bogo"
    /\ pc = "start"
    /\ file_exists \in BOOLEAN
    /\ combinations = <<>>
    /\ game_round = 0
    /\ categories = {}
    /\ partition_counts = <<>>
    /\ largest_category = <<>>
    /\ answer = <<>>
    /\ outcome = "none"
    /\ reported = 0
    /\ played = <<>>

NextBogo == BogoStart \/ ForNext \/ BogoBody

SpecBogo == InitBogo /\ [][NextBogo]_vars

(***************************************************************************)
(* Any of the three solver scripts.                                        *)
(***************************************************************************)
InitDrivers == Init \/ InitBogo

NextDrivers ==
    KooiStart \/ ForNext \/ KooiBody \/ SimpleStart \/ BogoStart \/ BogoBody

SpecDrivers == InitDrivers /\ [][NextDrivers]_vars

(***************************************************************************)
(* koois.py and bogorithm.py run with command-line arguments.              *)
(* init.get_combinations calls generate_set.main, whose argument parser    *)
(* (generate_set.py, lines 20-24) reads the arguments of the running       *)
(* script: --width and --seq_length decide the list that is written and    *)
(* read back, while the game keeps init.GAME_WIDTH and init.COLOURS.       *)
(* Without arguments the list is the board's (KooiStart, BogoStart).       *)
(***************************************************************************)
InitArguments ==
    /\ FnIdle
    /\ GenIdle
    /\ algo \in {"kooi", "bogo"}
    /\ pc = "start"
    /\ file_exists \in BOOLEAN
    /\ combinations = <<>>
    /\ game_round = 0
    /\ categories = {}
    /\ partition_counts = <<>>
    /\ largest_category = <<>>
    /\ answer = <<>>
    /\ outcome = "none"
    /\ reported = 0
    /\ played = <<>>

StartWithArguments ==
    /\ algo \in {"kooi", "bogo"}
    /\ pc = "start"
    /\ file_exists' = TRUE
    /\ \E width \in 0 .. Width, seq_length \in 0 .. NumColours :
          combinations' = generate_permutations_with_replacement(width, seq_length)
    /\ gen' = "created"
    /\ game_length' = IF algo = "bogo" THEN BogoGameLength ELSE GameLength
    /\ pc' = "for"
    /\ UNCHANGED <<fn_vars, secret_code, iteration, guess, scored, ret, algo,
                   game_round, categories, partition_counts, largest_category,
                   answer, outcome, reported, played>>

NextArguments == StartWithArguments \/ ForNext \/ KooiBody \/ BogoBody

SpecArguments == InitArguments /\ [][NextArguments]_vars

(***************************************************************************)
(*                        Properties of the comparator                     *)
(***************************************************************************)
Returned(op) == call.op = op /\ result.kind = "return"

Occurrences(code, colour) == Cardinality({i \in DOMAIN code : code[i] = colour})

RECURSIVE SharedColours(_, _, _)
SharedColours(a, b, colour) ==
    IF colour < 0
    THEN 0
    ELSE (IF Occurrences(a, colour) <= Occurrences(b, colour)
          THEN Occurrences(a, colour)
          ELSE Occurrences(b, colour))
         + SharedColours(a, b, colour - 1)

ExactMatches(a, b) == Cardinality({i \in DOMAIN a : a[i] = b[i]})

\* C2: compare_codes(secret, guess) is (exact, colour), exact the number of
\* positions where the two codes agree and colour the sum over the colours of
\* the lower of the two frequencies, minus exact; (0,1,2,3) against (0,1,2,4)
\* is (3,0), against (3,2,1,0) it is (0,4), (0,0) against (1,1) is (0,0), and a
\* code against itself is (width, 0).
ScoreIsExactAndColour ==
    /\ Returned("compare_codes") =>
          LET exact == ExactMatches(call.secret, call.to_compare)
              shared == SharedColours(call.secret, call.to_compare, NumColours - 1)
          IN  /\ result.value = <<exact, shared - exact>>
              /\ call.secret = call.to_compare => result.value = <<Width, 0>>
    /\ compare_codes(<<0, 1, 2, 3>>, <<0, 1, 2, 4>>) = <<3, 0>>
    /\ compare_codes(<<0, 1, 2, 3>>, <<3, 2, 1, 0>>) = <<0, 4>>
    /\ compare_codes(<<0, 0>>, <<1, 1>>) = <<0, 0>>

\* C2's case: a score with every colour of the guess right and none in place.
AllColoursMisplaced ==
    /\ Returned("compare_codes")
    /\ result.value = <<0, Width>>

\* C9: compare_codes(a, b) equals compare_codes(b, a) for all codes a, b of
\* the same width.
ScoreIsSymmetric ==
    Returned("compare_codes") =>
        result.value = compare_codes(call.to_compare, call.secret)

\* C9's case: two codes with different colour frequencies have been scored.
UnlikeCodesScored ==
    /\ Returned("compare_codes")
    /\ Counter(call.secret) # Counter(call.to_compare)
    /\ result.value[1] > 0
    /\ result.value[2] > 0

\* C10: the feedback (exact, colour) of two codes of width w has
\* 0 <= exact <= w, colour >= 0 and exact + colour <= w.
ScoreIsWithinWidth ==
    Returned("compare_codes") =>
        /\ 0 <= result.value[1]
        /\ result.value[1] <= Width
        /\ result.value[2] >= 0
        /\ result.value[1] + result.value[2] <= Width

\* C10's case: a score that reaches the width with both counts positive.
ScoreFillsWidth ==
    /\ Returned("compare_codes")
    /\ result.value[1] > 0
    /\ result.value[2] > 0
    /\ result.value[1] + result.value[2] = Width

(***************************************************************************)
(*                     Properties of the game generator                    *)
(***************************************************************************)
Ended ==
    /\ gen = "finished"
    /\ ret.kind = "StopIteration"

\* C3: a guess submitted to simulate_game advances the round by one and
\* yields the feedback of that guess against the secret; a winning feedback
\* ends the session as won (the generator accepts nothing more, also on the
\* last permitted round); a feedback that is not a win ends it as lost when
\* the number of scored guesses is game_length (the next resume is
\* StopIteration and scores nothing), and otherwise the session awaits the
\* next guess.
SubmitGuessMovesTheSession ==
    [][/\ scored' = scored + 1 =>
            LET correctness == compare_codes(secret_code, guess')
                won == correctness[1] = Width
            IN  /\ gen = "guess"
                /\ iteration' = scored'
                /\ ret' = Yield(<<correctness[1], correctness[2], won>>)
                /\ gen' = IF won THEN "won" ELSE "feedback"
       /\ gen = "won" => Ended' /\ scored' = scored
       /\ (gen = "feedback" /\ scored = game_length) => Ended' /\ scored' = scored
       /\ (gen = "feedback" /\ scored < game_length) =>
            gen' = "guess" /\ ret' = Yield(None) /\ scored' = scored
      ]_vars

\* C3's case: the guess of the last permitted round won.
WonOnLastRound ==
    /\ algo = "caller"
    /\ gen = "won"
    /\ game_length > 1
    /\ scored = game_length
    /\ ret.value[3]

(***************************************************************************)
(*                     Properties of the pool functions                    *)
(***************************************************************************)
Matching(pool, code, score) ==
    {i \in DOMAIN pool : compare_codes(code, pool[i]) = score}

\* C4: reduce(pool, guess, feedback) returns exactly the entries c of pool
\* whose score against the guess is the feedback: every such entry is kept
\* (in the pool's order), every other entry is dropped and nothing from
\* outside the pool is added.
ReduceKeepsExactlyTheMatching ==
    Returned("reduce") =>
        LET kept == Matching(call.pool, call.guess, call.score)
        IN  /\ Len(result.value) = Cardinality(kept)
            /\ \A i \in kept :
                  result.value[Cardinality({j \in kept : j <= i})] = call.pool[i]

\* C4's case: reduce kept some of the pool and dropped some, and a code that
\* matches the feedback was not in the pool to begin with.
ReduceSplitsThePool ==
    /\ Returned("reduce")
    /\ 0 < Len(result.value)
    /\ Len(result.value) < Len(call.pool)
    /\ \E code \in Universe \ Range(call.pool) :
          compare_codes(call.guess, code) = call.score

\* C8: the next guess of the Simple variant is the first element of the pool
\* in its order, the same code for the same pool, with no random choice.
GetGuessIsFirstOfPool ==
    Returned("get_guess") => result.value = Head(call.pool)

(***************************************************************************)
(*                      Properties of the solver scripts                   *)
(***************************************************************************)
GameStarted == gen \notin {"absent", "created"}

\* C1: in a game whose feedback is computed against the secret and whose
\* pool starts as the full universe, the secret is a member of the pool
\* after every application of reduce (reduce scores the guess against the
\* candidate, the session the secret against the guess).
SecretStaysInPool ==
    (algo = "kooi" /\ GameStarted) =>
        \E i \in DOMAIN combinations : combinations[i] = secret_code

\* C1's case: reduce has been applied twice, the pool has shrunk and the
\* secret is not the only code left in it.
PoolReducedTwice ==
    /\ algo = "kooi"
    /\ pc = "for"
    /\ game_round = 2
    /\ Len(combinations) > 1
    /\ Len(combinations) < Len(AllCombinations)
    /\ secret_code \in Range(combinations)

\* C5: the game loop of the Simple script, started with the full universe
\* as pool, ends by a win or by an empty pool within |universe| rounds, for
\* every secret.
SimpleEndsByWinOrEmptyPool ==
    (algo = "simple" /\ pc = "done") =>
        /\ outcome = "won" \/ (GameStarted /\ combinations = <<>>)
        /\ game_round <= Cardinality(Universe)

InBody == algo = "kooi" /\ pc = "body" /\ combinations # <<>>

\* C6: in every round of the Kooi script the selected category has a
\* partition count at least that of every category present in the pool, and
\* the guess played is the first candidate of the pool, in the pool's order,
\* whose category is the selected one.
LargestCategoryAndFirstCandidate ==
    [][InBody =>
        /\ \A i \in DOMAIN combinations :
              /\ get_category(combinations[i]) \in DOMAIN partition_counts'
              /\ partition_counts'[largest_category']
                    >= partition_counts'[get_category(combinations[i])]
        /\ \E i \in DOMAIN combinations :
              /\ guess' = combinations[i]
              /\ get_category(combinations[i]) = largest_category'
              /\ \A j \in 1 .. (i - 1) :
                    get_category(combinations[j]) # largest_category'
      ]_vars

\* C6's case: a round past the first chose between categories of different
\* partition counts and played a guess that is not the universe's first code.
ChoseBetweenUnequalCategories ==
    /\ algo = "kooi"
    /\ game_round >= 2
    /\ \E a, b \in categories : partition_counts[a] < partition_counts[b]
    /\ get_category(guess) = largest_category
    /\ guess # AllCombinations[1]

DistinctScores(code, pool) ==
    Cardinality({score \in Scores :
                    \E i \in DOMAIN pool : compare_codes(code, pool[i]) = score})

\* C7, as the claim states it: the probe of a category g is a candidate of
\* the current pool that belongs to g, and the partition count of g is the
\* number of distinct feedback values the probe produces against the pool.
ProbeIsCandidateOfPool ==
    [][InBody =>
        \A g \in categories' :
            /\ Probe(g) \in Range(combinations)
            /\ get_category(Probe(g)) = g
            /\ partition_counts'[g] = DistinctScores(Probe(g), combinations)
      ]_vars

\* C7, amended: the probe of a category g is the category tuple g itself,
\* a code that belongs to g (whether or not the pool holds it), and the
\* partition count of g is the number of distinct feedback values the probe
\* produces against every candidate of the current pool.
ProbeIsTheCategoryItself ==
    [][InBody =>
        /\ categories' = {get_category(combinations[i]) : i \in DOMAIN combinations}
        /\ \A g \in categories' :
              /\ Probe(g) = g
              /\ get_category(Probe(g)) = g
              /\ partition_counts'[g] = DistinctScores(Probe(g), combinations)
      ]_vars

\* C7's case: a round is about to count partitions for a category whose
\* probe is not in the pool.
ProbeOutsidePool ==
    /\ InBody
    /\ game_round >= 1
    /\ \E g \in get_all_categories(combinations) : Probe(g) \notin Range(combinations)


(***************************************************************************)
(* C11                                                                     *)
(***************************************************************************)
\* C11: reduce is idempotent: reducing the list reduce returned, with the
\* same guess and the same score, returns that list again.
ReduceIsIdempotent ==
    (call.op = "reduce_again" /\ result.kind = "return")
        => result.value = call.pool

\* The second reduce was given a list that the first reduce had shortened
\* and that still holds more than one code.
ReducedAgainAfterShrinking ==
    /\ call.op = "reduce_again"
    /\ result.kind = "return"
    /\ Len(call.pool) > 1
    /\ Range(call.pool) # Universe
    /\ call.guess \notin Range(call.pool)


(***************************************************************************)
(* C12                                                                     *)
(***************************************************************************)
\* The session is over: a guess was scored as the secret (line 203), or the
\* last guess of the budget was scored (line 206 of the last iteration), or
\* the generator has returned.
SessionOver ==
    \/ gen = "won"
    \/ gen = "feedback" /\ iteration = game_length
    \/ gen = "finished"

\* C12: once the session is won or lost, sending another guess is an error:
\* the caller gets StopIteration, the guess is not scored, no feedback is
\* yielded, and the session stays over.
SendAfterTheEndIsAnError ==
    [][(SessionOver /\ pc' = "send")
          => /\ ret'.kind = "StopIteration"
             /\ scored' = scored
             /\ SessionOver']_vars

\* A guess was sent to a session that was over after scoring its whole
\* budget of guesses.
SentAfterTheEnd ==
    /\ pc = "send"
    /\ ret.kind = "StopIteration"
    /\ game_length > 1
    /\ scored = game_length


(***************************************************************************)
(* C14                                                                     *)
(***************************************************************************)
\* C14: Bogo's pick removes exactly one element from the pool and plays it
\* as the guess: the pool left has one element fewer and holds the other
\* elements unchanged, in their order.  Asked to pick from an empty pool it
\* reports an error (ValueError).
PickRemovesExactlyOneCode ==
    (call.op = "pop" /\ result # NoReturn)
        => IF call.pool = <<>>
           THEN result.kind = "ValueError"
           ELSE /\ result.kind = "return"
                /\ Len(result.value[2]) = Len(call.pool) - 1
                /\ \E i \in DOMAIN call.pool :
                      /\ call.pool[i] = result.value[1]
                      /\ \A j \in DOMAIN result.value[2] :
                            result.value[2][j] = call.pool[IF j < i THEN j ELSE j + 1]

\* The pick took a code from the inside of a pool, neither its first nor
\* its last.
PickedFromTheMiddle ==
    /\ call.op = "pop"
    /\ result.kind = "return"
    /\ Len(call.pool) > 2
    /\ result.value[1] # call.pool[1]
    /\ result.value[1] # call.pool[Len(call.pool)]


ColoursOccurring(code, count) ==
    Cardinality({colour \in Range(code) : Occurrences(code, colour) = count})

\* The two codes have the same multiset of colour multiplicities.
SamePattern(a, b) ==
    \A count \in 1 .. Width : ColoursOccurring(a, count) = ColoursOccurring(b, count)

\* b is a with its positions permuted.
IsRearrangement(a, b) ==
    \E p \in Permutations(DOMAIN a) : b = [i \in DOMAIN a |-> a[p[i]]]

\* b is a with its colours renamed, position by position.
IsRenaming(a, b) ==
    \A i, j \in DOMAIN a : (a[i] = a[j]) <=> (b[i] = b[j])

\* C16: get_category depends only on the pattern of colour multiplicities:
\* two codes of the same width get the same category exactly when their
\* multisets of multiplicities are equal, so permuting the positions of a
\* code or renaming its colours leaves its category unchanged; AABC always
\* maps to (0,0,1,2), and multiplicities {2,1,1} and {2,2} get different
\* categories.
CategoryIsTheMultiplicityPattern ==
    /\ Returned("get_category") =>
          /\ (result.value[1] = result.value[2])
                <=> SamePattern(call.combination, call.other)
          /\ IsRearrangement(call.combination, call.other)
                => result.value[1] = result.value[2]
          /\ IsRenaming(call.combination, call.other)
                => result.value[1] = result.value[2]
    /\ get_category(<<3, 3, 1, 2>>) = <<0, 0, 1, 2>>
    /\ get_category(<<2, 5, 1, 5>>) = <<0, 0, 1, 2>>
    /\ get_category(<<4, 1, 1, 4>>) = <<0, 0, 1, 1>>

\* Two codes with a repeated colour got the same category although neither
\* is the other rearranged or renamed position by position alone.
SameCategoryOfUnlikeCodes ==
    /\ Returned("get_category")
    /\ result.value[1] = result.value[2]
    /\ result.value[1][2] = 0
    /\ result.value[1][Width] # 0
    /\ ~IsRearrangement(call.combination, call.other)
    /\ ~IsRenaming(call.combination, call.other)


(***************************************************************************)
(* C17                                                                     *)
(***************************************************************************)
\* C17: generate_permutations_with_replacement(width, seq_length) returns
\* every sequence of width symbols over 0 .. seq_length - 1 exactly once:
\* seq_length^width entries, no two of them equal, and no sequence missing.
GenerateListsEveryCodeOnce ==
    Returned("generate_permutations_with_replacement") =>
        LET codes == [1 .. call.width -> 0 .. (call.seq_length - 1)]
        IN  /\ Len(result.value) = Cardinality(codes)
            /\ Len(result.value) = IF call.width = 0 THEN 1
                                   ELSE call.seq_length ^ call.width
            /\ \A i, j \in DOMAIN result.value :
                  result.value[i] = result.value[j] => i = j
            /\ \A code \in codes : \E i \in DOMAIN result.value : result.value[i] = code
            /\ \A i \in DOMAIN result.value : result.value[i] \in codes

\* The list was generated for the whole board: the board's width and all
\* its colours.
GeneratedTheUniverse ==
    /\ Returned("generate_permutations_with_replacement")
    /\ call.width = Width
    /\ call.seq_length = NumColours
    /\ Len(result.value) > NumColours


(***************************************************************************)
(* C19                                                                     *)
(***************************************************************************)
\* C19: scoring a guess whose length differs from the secret's length fails
\* with an error result (InvalidCodeLength) and returns no feedback pair.
LengthMismatchIsAnError ==
    (/\ call.op = "compare_codes"
     /\ Len(call.secret) # Len(call.to_compare)
     /\ result # NoReturn)
        => result.kind # "return"


(***************************************************************************)
(* C20                                                                     *)
(***************************************************************************)
\* C20: when a strategy is asked for a guess while the pool is empty, the
\* driver ends the game as a loss and the script does not end by an
\* exception: a game that has ended unwon on an empty pool has ended as
\* lost.
EmptyPoolEndsTheGameAsLost ==
    (GameStarted /\ pc = "done" /\ combinations = <<>> /\ outcome # "won")
        => outcome = "lost"


(***************************************************************************)
(* C21                                                                     *)
(***************************************************************************)
\* C21: when combinations.json is absent at the start, every driver writes
\* the universe before it reads it: once main is past its first statements
\* the file exists, the script has not failed on the missing file, and a
\* game that has begun began with the whole universe as its pool.
AbsentFileIsRegenerated ==
    pc # "start"
        => /\ file_exists
           /\ outcome # "FileNotFoundError"
           /\ (pc = "for" /\ gen = "created") => combinations = AllCombinations


(***************************************************************************)
(* C22                                                                     *)
(***************************************************************************)
\* How many entries of the list are the given word.
Entries(list, word) == Cardinality({i \in DOMAIN list : list[i] = word})

\* C22: for every secret and guess of length code_length the list-form
\* comparator returns a list of exactly code_length entries: as many
\* CORRECT_ORDER as the core comparator's exact count, as many
\* INCORRECT_ORDER as its colour count, and WRONG for the rest.
ListFormCountsAsThePair ==
    Returned("compare_codes_list") =>
        LET pair == compare_codes(call.secret, call.to_compare)
        IN  /\ Len(result.value) = Width
            /\ Entries(result.value, "CORRECT_ORDER") = pair[1]
            /\ Entries(result.value, "INCORRECT_ORDER") = pair[2]
            /\ Entries(result.value, "WRONG") = Width - pair[1] - pair[2]


OnlyAwaitedGuessesAreScored ==
    [][/\ scored' <= game_length'
       /\ game_length' = game_length
       /\ secret_code # None => secret_code' = secret_code
       /\ scored' \in {scored, scored + 1}
       /\ iteration' \in {scored', scored' + 1}
       /\ scored' # scored
             => /\ gen = "guess"
                /\ pc' = "send"
                /\ <<ret'.value[1], ret'.value[2]>> = compare_codes(secret_code, guess')
       /\ gen \in {"won", "finished"} => (scored' = scored /\ gen' = "finished")
       /\ (gen = "feedback" /\ pc' = "send")
             => /\ scored' = scored
                /\ IF iteration < game_length
                   THEN /\ gen' = "guess"
                        /\ iteration' = iteration + 1
                        /\ ret' = Yield(None)
                   ELSE /\ gen' = "finished"
                        /\ iteration' = iteration
                        /\ ret' = Raise("StopIteration")
      ]_vars

\* A guess was sent to the generator suspended at a feedback yield, after a
\* guess had been scored: the generator dropped it and awaits a guess.
SentAtAFeedbackYield ==
    /\ pc = "send"
    /\ gen = "guess"
    /\ ret = Yield(None)
    /\ scored >= 1

=============================================================================
